---- MODULE Spec2Model ----
(***************************************************************************)
(* State-machine model of dymoapi.DymoAPI (src/dymoapi/dymoapi.py): the    *)
(* class-level token cache (tokens_response, tokens_verified), client      *)
(* construction, initialize_tokens, the _get_function dispatcher and the   *)
(* facade methods.  Execution is sequential: every action is one whole     *)
(* call of a method, from entry to return or raise.                        *)
(***************************************************************************)
EXTENDS Naturals, Sequences, FiniteSets

VARIABLES
    tokens_response,   \* DymoAPI.tokens_response: {} is None, {d} is the dict d
    tokens_verified,   \* DymoAPI.tokens_verified
    clients,           \* configurations of the live DymoAPI instances
    verified_by,       \* the verification requests that succeeded so far, in order
    last,              \* what the most recent call did (requests, logs, outcome)
    threads            \* the threads constructing clients concurrently

vars == <<tokens_response, tokens_verified, clients, verified_by, last, threads>>

(* ---------------- bounds of the model ---------------- *)

\* live client instances held by the process at one time
MaxClients == 1

(* ---------------- values ---------------- *)

\* Python's None, for the optional string attributes of a client
NoneVal == "None"

\* config.get("api_key", None): absent, empty, or one of two tokens
APIKeys == {NoneVal, "", "k1", "k2"}
\* config.get("root_api_key", None); the code reads the root key by truthiness
\* alone (lines 57, 66, 140), so an empty root key behaves as an absent one
RootKeys == {NoneVal, "r1"}
\* config.get("server_email_config", None)
EmailConfigs == {NoneVal, "smtp"}

\* the attributes __init__ stores on the instance
Configs == [root_api_key : RootKeys, api_key : APIKeys, server_email_config : EmailConfigs]

\* Python truthiness of an optional string attribute
Truthy(x) == x # NoneVal /\ x # ""

\* f"Bearer {key}"
Bearer(key) == <<"Bearer ", key>>

\* mutant of TokensOf: the keys are tested with `is not None`, so an empty key is
\* put in the map
TokensOfNotNone(c) ==
    [k \in  (IF c.root_api_key # NoneVal THEN {"root"} ELSE {})
       \cup (IF c.api_key # NoneVal THEN {"private"} ELSE {})
     |-> IF k = "root" THEN Bearer(c.root_api_key) ELSE Bearer(c.api_key)]

\* the dict `tokens` built by initialize_tokens: a key only for a truthy credential
TokensOf(c) ==
    [k \in  (IF Truthy(c.root_api_key) THEN {"root"} ELSE {})
       \cup (IF Truthy(c.api_key) THEN {"private"} ELSE {})
     |-> IF k = "root" THEN Bearer(c.root_api_key) ELSE Bearer(c.api_key)]

\* JSON bodies the verification endpoint may answer with: the empty dict, or a
\* dict with boolean "root" and "private" entries
Datas == {<<>>} \cup [{"root", "private"} -> BOOLEAN]

\* what the POST to /v1/dvr/tokens can end in
VerifyReplies ==
    {[kind |-> k, data |-> <<>>] : k \in {"network_error", "http_error", "json_not_dict"}}
    \cup {[kind |-> "json", data |-> d] : d \in Datas}

\* data.get(k) taken as a condition
GetTruthy(d, k) == k \in DOMAIN d /\ d[k]

\* truthiness of DymoAPI.tokens_response: not None and not an empty dict
ResponseTruthy(r) == \E d \in r : DOMAIN d # {}

(* ---------------- the record of one call ---------------- *)

\* What a call did. op and client name the method and the instance; before is
\* the cache when the call started and after_failure tells whether the call
\* before it was a verification that failed; reply is the service's answer to
\* the verification request, if one was sent; trace lists the steps of
\* __init__; requests are the requests sent to the service; dispatched the
\* capability functions invoked; logs the logging.error records; prints the
\* printed lines; outcome is "return" or "raise" (exc the exception); raw is
\* the payload the capability returned, value the dict handed to the response
\* model, model that model's name and result the object the caller gets ({}
\* stands for None in each).
NoCall ==
    [op |-> "none", client |-> {}, before |-> [response |-> {}, verified |-> FALSE],
     after_failure |-> FALSE, reply |-> {}, trace |-> <<>>, requests |-> <<>>,
     dispatched |-> <<>>, logs |-> <<>>, prints |-> <<>>, outcome |-> "return",
     exc |-> "", raw |-> {}, value |-> {}, model |-> "", result |-> {}]

\* the calls that run initialize_tokens
InitOps == {"__init__", "initialize_tokens"}

\* a call that sent a verification request which did not verify the cache
FailedVerification(call) ==
    /\ call.op \in InitOps
    /\ call.requests # <<>>
    /\ call.prints # <<"Tokens initialized successfully.">>

\* the record of a call of client c that starts in the current state
Started(op, c) ==
    [NoCall EXCEPT !.op = op, !.client = {c},
                   !.before = [response |-> tokens_response, verified |-> tokens_verified],
                   !.after_failure = (op = "__init__" /\ FailedVerification(last))]

(* ---------------- DymoAPI.initialize_tokens ---------------- *)

\* mutants of CacheHit: the flag tested the wrong way round; the test left out
CacheHitUnverified(resp, ver) == ResponseTruthy(resp) /\ ~ver

CacheHitNever(resp, ver) == FALSE

\* line 55: the cached verdict is reused
CacheHit(resp, ver) == ResponseTruthy(resp) /\ ver

\* mutant of RootRejected: the root credential is checked against the wrong entry
RootRejectedWrongEntry(c, data) == Truthy(c.root_api_key) /\ ~GetTruthy(data, "private")

\* line 66: a root credential was supplied and the response does not confirm it
RootRejected(c, data) == Truthy(c.root_api_key) /\ ~GetTruthy(data, "root")

\* mutant of PrivateRejected: line 67 left out, any answer confirms the api key
PrivateRejectedNever(c, data) == FALSE

\* line 67: an API credential was supplied and the response does not confirm it
PrivateRejected(c, data) == Truthy(c.api_key) /\ ~GetTruthy(data, "private")

\* mutant of CaughtKinds: the except clause names the transport errors only
CaughtKindsTransportOnly == {"RequestException"}

\* line 71: the exceptions the except clause catches. requests.post raises a
\* RequestException on a network error, raise_for_status an HTTPError (a
\* RequestException); data.get on a body that is no dict raises AttributeError
CaughtKinds == {"RequestException", "AuthenticationError"}

\* line 41: config.get("local", False)
Local(c) == IF "local" \in DOMAIN c THEN c.local ELSE FALSE

\* lines 43-44: the base URL set_base_url(local) selects and get_base_url()
\* returns, one fixed value for the local mode and one for the cloud
BaseUrl(local) == IF local THEN "local" ELSE "cloud"

\* the request of line 63: requests.post(f"{self.base_url}/v1/dvr/tokens", ...)
VerifyRequest(c) ==
    [method |-> "POST", base |-> BaseUrl(Local(c)), url |-> "/v1/dvr/tokens",
     json |-> [tokens |-> TokensOf(c)]]

\* The effect of one initialize_tokens call of client c on the cache (resp, ver)
\* when the server answers `reply`: the new cache, the requests sent, the logs
\* and the outcome.
InitTokens(c, resp, ver, reply) ==
    LET quiet == [response |-> resp, verified |-> ver, requests |-> <<>>,
                  logs |-> <<>>, prints |-> <<>>, outcome |-> "return", exc |-> ""]
        sent == [quiet EXCEPT !.requests = <<VerifyRequest(c)>>]
        failed(kind, msg) ==
            IF kind \in CaughtKinds
            THEN [sent EXCEPT !.logs = <<<<"Token validation error", msg>>>>]
            ELSE [sent EXCEPT !.outcome = "raise", !.exc = kind]
    IN  IF CacheHit(resp, ver)
        THEN [quiet EXCEPT !.prints = <<"Using cached tokens response.">>]
        ELSE IF DOMAIN TokensOf(c) = {} THEN quiet
        ELSE IF reply.kind = "network_error" THEN failed("RequestException", "network")
        ELSE IF reply.kind = "http_error" THEN failed("RequestException", "status")
        ELSE IF reply.kind = "json_not_dict" THEN failed("AttributeError", "get")
        ELSE IF RootRejected(c, reply.data)
             THEN failed("AuthenticationError", "Invalid root token.")
        ELSE IF PrivateRejected(c, reply.data)
             THEN failed("AuthenticationError", "Invalid private token.")
        ELSE [sent EXCEPT !.response = {reply.data}, !.verified = TRUE,
                          !.prints = <<"Tokens initialized successfully.">>]

(* ---------------- DymoAPI.__init__ ---------------- *)

\* mutants of VerifiesOnInit: the test reads the root key; the test left out
VerifiesOnInitRoot(c) == Truthy(c.root_api_key)

VerifiesOnInitAlways(c) == TRUE

\* line 46: construction verifies the credentials only with a truthy api_key
VerifiesOnInit(c) == Truthy(c.api_key)

\* the record of a call that ran initialize_tokens with effect e
Verified(op, c, steps, reply, e) ==
    [Started(op, c) EXCEPT !.trace = steps, !.requests = e.requests,
                           !.reply = IF e.requests = <<>> THEN {} ELSE {reply},
                           !.logs = e.logs, !.prints = e.prints,
                           !.outcome = e.outcome, !.exc = e.exc]

\* verified_by after a call of client c with effect e
Succeeded(c, e) ==
    IF e.prints = <<"Tokens initialized successfully.">>
    THEN Append(verified_by, TokensOf(c)) ELSE verified_by

\* lines 43-45: the calls __init__ makes before it looks at the api key
InitSteps == <<"set_base_url", "get_base_url", "check_for_updates">>

\* DymoAPI(config): lines 38-46. An __init__ that raises binds no instance.
Construct(c, reply) ==
    LET steps == InitSteps
        e == InitTokens(c, tokens_response, tokens_verified, reply)
    IN  /\ c \in clients \/ Cardinality(clients) < MaxClients
        /\ IF VerifiesOnInit(c)
           THEN /\ tokens_response' = e.response
                /\ tokens_verified' = e.verified
                /\ verified_by' = Succeeded(c, e)
                /\ clients' = IF e.outcome = "raise" THEN clients ELSE clients \cup {c}
                /\ last' = Verified("__init__", c, Append(steps, "initialize_tokens"),
                                    reply, e)
           ELSE /\ clients' = clients \cup {c}
                /\ last' = [Started("__init__", c) EXCEPT !.trace = steps]
                /\ UNCHANGED <<tokens_response, tokens_verified, verified_by>>
        /\ UNCHANGED threads

\* the process drops its reference to an instance (each test's setUp rebinds
\* self.client); the class-level cache outlives the instance
Release(c) ==
    /\ c \in clients
    /\ clients' = clients \ {c}
    /\ last' = Started("del", c)
    /\ UNCHANGED <<tokens_response, tokens_verified, verified_by, threads>>

\* client.initialize_tokens() called directly on a live instance: lines 54-72
InitializeTokens(c, reply) ==
    LET e == InitTokens(c, tokens_response, tokens_verified, reply)
    IN  /\ c \in clients
        /\ tokens_response' = e.response
        /\ tokens_verified' = e.verified
        /\ verified_by' = Succeeded(c, e)
        /\ last' = Verified("initialize_tokens", c, <<>>, reply, e)
        /\ UNCHANGED <<clients, threads>>

(* ---------------- DymoAPI._get_function and the capabilities ---------------- *)

\* mutant of MissingPrivateToken: the guard names the other module
MissingPrivateTokenWrongModule(module_name, c) ==
    module_name = "public" /\ c.api_key = NoneVal

\* line 49: the private module is asked for and the instance has no api_key
MissingPrivateToken(module_name, c) == module_name = "private" /\ c.api_key = NoneVal

\* what the capability's request to the service can end in
CallReplies == {"ok", "transport_error"}

\* A capability function of dymoapi.branches.<module_name>, invoked through the
\* lambda of lines 51-52: it sends one request (with the api key for a private
\* capability) and returns the payload, or raises on a transport failure.
Capability(module_name, function_name, key, args, reply, payload) ==
    [requests |-> <<[url |-> function_name, module |-> module_name, token |-> key,
                     json |-> args]>>,
     outcome |-> IF reply = "ok" THEN "return" ELSE "raise",
     exc |-> IF reply = "ok" THEN "" ELSE "APIError",
     value |-> IF reply = "ok" THEN {payload} ELSE {}]

\* mutant of Invoke: the lambda of line 51 serves every module, so a public
\* capability is handed the api key too
InvokeKeyed(c, module_name, function_name, args, reply, payload) ==
    IF MissingPrivateToken(module_name, c)
    THEN [requests |-> <<>>, dispatched |-> <<>>, logs |-> <<"Invalid private token.">>,
          outcome |-> "raise", exc |-> "TypeError", raw |-> {}, value |-> {}]
    ELSE LET key == {c.api_key}
             r == Capability(module_name, function_name, key, args, reply, payload)
         IN  [requests |-> r.requests,
              dispatched |-> <<[module |-> module_name, name |-> function_name,
                                token |-> key, args |-> args]>>,
              logs |-> <<>>, outcome |-> r.outcome, exc |-> r.exc, raw |-> r.value,
              value |-> r.value]

\* self._get_function(module_name, function_name)(args): lines 48-52 and the call
\* of what they return. DotDict(...) hands the payload on as the mapping it is. Without an api_key the private lookup logs and returns
\* None (the value of logging.error), and calling None raises TypeError.
Invoke(c, module_name, function_name, args, reply, payload) ==
    IF MissingPrivateToken(module_name, c)
    THEN [requests |-> <<>>, dispatched |-> <<>>, logs |-> <<"Invalid private token.">>,
          outcome |-> "raise", exc |-> "TypeError", raw |-> {}, value |-> {}]
    ELSE LET key == IF module_name = "private" THEN {c.api_key} ELSE {}
             r == Capability(module_name, function_name, key, args, reply, payload)
         IN  [requests |-> r.requests,
              dispatched |-> <<[module |-> module_name, name |-> function_name,
                                token |-> key, args |-> args]>>,
              logs |-> <<>>, outcome |-> r.outcome, exc |-> r.exc, raw |-> r.value,
              value |-> r.value]

(* ---------------- payloads ---------------- *)

\* A JSON value is {} for null and {v} for the value v; a payload maps its
\* keys to JSON values.

\* the "ip" object of a data-verifier payload: optional "as" and "class" entries
\* (possibly empty strings) beside another field
IpObjects ==
    UNION {[D \cup {"country"} -> {"", "x"}] : D \in SUBSET {"as", "class"}}

\* raw data-verifier payloads: every entry null but "ip", which is missing,
\* null ({}) or an ip object
VerifierPayloads ==
    {[k \in {"email", "phone", "domain", "creditCard"} |-> {}]}
    \cup {[k \in {"email", "phone", "domain", "creditCard", "ip"} |->
              IF k = "ip" THEN v ELSE {}] :
            v \in {{}} \cup {{o} : o \in {x \in IpObjects : x["country"] = "x"}}}

\* the declared fields of the response models (response_models.py)
ModelFields(model) ==
    CASE model = "UrlEncryptResponse" -> {"original", "code", "encrypt"}
      [] model = "IsValidPwdResponse" -> {"valid", "password", "details"}
      [] model = "SatinizerResponse" -> {"input", "formats", "includes"}
      [] model = "PrayerTimesResponse" -> {"country", "prayerTimesByTimezone"}
      [] model = "DataVerifierResponse" -> {"email", "phone", "domain", "creditCard", "ip"}
      [] model = "SRNGResponse" -> {"values", "executionTime"}
      [] model = "SendEmailResponse" -> {"status", "error", "warning"}

\* the fields a payload must give. DataVerifierResponse declares its fields
\* Optional[...] without a default: pydantic 1 fills them with None, pydantic 2
\* (strict) requires them. error and warning have defaults.
RequiredFields(model, strict) ==
    CASE model = "DataVerifierResponse" -> IF strict THEN ModelFields(model) ELSE {}
      [] model = "SendEmailResponse" -> {"status"}
      [] OTHER -> ModelFields(model)

\* the response model each facade method declares as its return type
\* (lines 74, 107, 143, 168, 194, 214, 249)
Declared(op) ==
    CASE op = "is_valid_data" -> "DataVerifierResponse"
      [] op = "send_email" -> "SendEmailResponse"
      [] op = "get_random" -> "SRNGResponse"
      [] op = "get_prayer_times" -> "PrayerTimesResponse"
      [] op = "satinizer" -> "SatinizerResponse"
      [] op = "is_valid_pwd" -> "IsValidPwdResponse"
      [] op = "new_url_encrypt" -> "UrlEncryptResponse"

\* payloads of the other capabilities: the fields of the declared model, the
\* same with other contents and a key the model does not declare, or an error
\* body
PlainPayloads(op) ==
    {[f \in ModelFields(Declared(op)) |-> {"a"}],
     [f \in ModelFields(Declared(op)) \cup {"extra"} |-> {"b"}],
     [f \in {"error"} |-> {"e"}]}

\* model(**payload): a missing required field raises ValidationError; a field
\* the payload lacks is None; keys the model does not declare are ignored. The
\* values are handed to the fields as they are (nested models are not unfolded).
Typed(model, payload, strict) ==
    IF RequiredFields(model, strict) \subseteq DOMAIN payload
    THEN [outcome |-> "return", exc |-> "",
          result |-> {[f \in ModelFields(model) |->
                          IF f \in DOMAIN payload THEN payload[f] ELSE {}]}]
    ELSE [outcome |-> "raise", exc |-> "ValidationError", result |-> {}]

\* mutant of Normalize: "class" is moved but "as" is copied and never popped
\* (line 103 left out)
NormalizeKeepsAs(response) ==
    IF "ip" \notin DOMAIN response
    THEN [outcome |-> "return", exc |-> "", value |-> {response}]
    ELSE IF response["ip"] = {}
    THEN [outcome |-> "raise", exc |-> "AttributeError", value |-> {}]
    ELSE LET ip == CHOOSE o \in response["ip"] : TRUE
         IN  IF ~("as" \in DOMAIN ip /\ ip["as"] # "")
             THEN [outcome |-> "return", exc |-> "", value |-> {response}]
             ELSE IF "class" \notin DOMAIN ip
             THEN [outcome |-> "raise", exc |-> "KeyError", value |-> {}]
             ELSE LET renamed ==
                          [k \in ((DOMAIN ip) \ {"class"}) \cup {"_as", "_class"} |->
                              IF k = "_as" THEN ip["as"]
                              ELSE IF k = "_class" THEN ip["class"] ELSE ip[k]]
                  IN  [outcome |-> "return", exc |-> "",
                       value |-> {[response EXCEPT !["ip"] = {renamed}]}]

\* lines 100-104: the renaming of "as" and "class" in response["ip"]
Normalize(response) ==
    IF "ip" \notin DOMAIN response
    THEN [outcome |-> "return", exc |-> "", value |-> {response}]
    ELSE IF response["ip"] = {}
    THEN [outcome |-> "raise", exc |-> "AttributeError", value |-> {}]
    ELSE LET ip == CHOOSE o \in response["ip"] : TRUE
         IN  IF ~("as" \in DOMAIN ip /\ ip["as"] # "")
             THEN [outcome |-> "return", exc |-> "", value |-> {response}]
             ELSE IF "class" \notin DOMAIN ip
             THEN [outcome |-> "raise", exc |-> "KeyError", value |-> {}]
             ELSE LET renamed ==
                          [k \in ((DOMAIN ip) \ {"as", "class"}) \cup {"_as", "_class"} |->
                              IF k = "_as" THEN ip["as"]
                              ELSE IF k = "_class" THEN ip["class"] ELSE ip[k]]
                  IN  [outcome |-> "return", exc |-> "",
                       value |-> {[response EXCEPT !["ip"] = {renamed}]}]

(* ---------------- the facade methods ---------------- *)

\* mutant of Build: the method catches what the capability raised and returns
\* None
BuildSwallow(model, r, strict) ==
    IF r.outcome = "return" /\ r.value # {}
    THEN LET t == Typed(model, CHOOSE v \in r.value : TRUE, strict)
         IN  [requests |-> r.requests, dispatched |-> r.dispatched, logs |-> r.logs,
              outcome |-> t.outcome, exc |-> t.exc, raw |-> r.raw, value |-> r.value,
              model |-> model, result |-> t.result]
    ELSE [requests |-> r.requests, dispatched |-> r.dispatched, logs |-> r.logs,
          outcome |-> "return", exc |-> "", raw |-> r.raw, value |-> r.value,
          model |-> "", result |-> {}]

\* the response model built from what the capability call r handed over; what
\* the call raised passes through (the methods have no try)
Build(model, r, strict) ==
    IF r.outcome = "return" /\ r.value # {}
    THEN LET t == Typed(model, CHOOSE v \in r.value : TRUE, strict)
         IN  [requests |-> r.requests, dispatched |-> r.dispatched, logs |-> r.logs,
              outcome |-> t.outcome, exc |-> t.exc, raw |-> r.raw, value |-> r.value,
              model |-> model, result |-> t.result]
    ELSE [requests |-> r.requests, dispatched |-> r.dispatched, logs |-> r.logs,
          outcome |-> r.outcome, exc |-> r.exc, raw |-> r.raw, value |-> r.value,
          model |-> "", result |-> {}]

\* a facade call of a live instance leaves the cache and the instances alone
Facade(op, c, r) ==
    /\ c \in clients
    /\ last' = [Started(op, c) EXCEPT !.requests = r.requests, !.dispatched = r.dispatched,
                                      !.logs = r.logs, !.outcome = r.outcome,
                                      !.exc = r.exc, !.raw = r.raw, !.value = r.value,
                                      !.model = r.model, !.result = r.result]
    /\ UNCHANGED <<tokens_response, tokens_verified, clients, verified_by, threads>>

\* is_valid_data(data): lines 99-105
IsValidData(c, reply, payload, strict) ==
    LET r == Invoke(c, "private", "is_valid_data", "data", reply, payload)
        n == IF r.outcome = "return" THEN Normalize(CHOOSE v \in r.value : TRUE)
             ELSE [outcome |-> r.outcome, exc |-> r.exc, value |-> r.value]
    IN  Facade("is_valid_data", c,
               Build("DataVerifierResponse",
                     [r EXCEPT !.outcome = n.outcome, !.exc = n.exc, !.value = n.value],
                     strict))

\* mutant of EmailUnconfigured: the guard reads the api key for the root key
EmailUnconfiguredApiKey(c) == ~Truthy(c.server_email_config) /\ ~Truthy(c.api_key)

\* line 140: neither an email config nor a root key
EmailUnconfigured(c) == ~Truthy(c.server_email_config) /\ ~Truthy(c.root_api_key)

\* send_email(data): lines 140-141
SendEmail(c, reply, payload, strict) ==
    IF EmailUnconfigured(c)
    THEN Facade("send_email", c,
                [requests |-> <<>>, dispatched |-> <<>>,
                 logs |-> <<"You must configure the email client settings.">>,
                 outcome |-> "return", exc |-> "", raw |-> {}, value |-> {},
                 model |-> "", result |-> {}])
    ELSE Facade("send_email", c,
                Build("DataVerifierResponse",
                      Invoke(c, "private", "send_email",
                             <<"data", [serverEmailConfig |-> c.server_email_config]>>,
                             reply, payload),
                      strict))

\* get_random(data): line 166
GetRandom(c, reply, payload, strict) ==
    Facade("get_random", c,
           Build("DataVerifierResponse",
                 Invoke(c, "private", "get_random", "data", reply, payload), strict))

\* get_prayer_times(data): line 192
GetPrayerTimes(c, reply, payload) ==
    Facade("get_prayer_times", c,
           Build("PrayerTimesResponse",
                 Invoke(c, "public", "get_prayer_times", "data", reply, payload), TRUE))

\* satinizer(data): line 212
Satinizer(c, reply, payload) ==
    Facade("satinizer", c,
           Build("SatinizerResponse",
                 Invoke(c, "public", "satinizer", "data", reply, payload), TRUE))

\* is_valid_pwd(data): line 247
IsValidPwd(c, reply, payload) ==
    Facade("is_valid_pwd", c,
           Build("IsValidPwdResponse",
                 Invoke(c, "public", "is_valid_pwd", "data", reply, payload), TRUE))

\* new_url_encrypt(data): line 250
NewUrlEncrypt(c, reply, payload) ==
    Facade("new_url_encrypt", c,
           Build("UrlEncryptResponse",
                 Invoke(c, "public", "new_url_encrypt", "data", reply, payload), TRUE))

(* ---------------- concurrent constructions ---------------- *)

\* Two threads, each constructing one client. The steps of a thread are the
\* reads and writes of the class attributes in initialize_tokens, which nothing
\* orders between threads: there is no lock in lines 54-72.
Threads == {"t1", "t2"}

\* the configurations the threads construct with
ThreadConfigs == {c \in Configs : c.server_email_config = NoneVal}

\* A thread is at pc: "start" before DymoAPI(config), "line55" between the reads
\* of tokens_response and tokens_verified, "line63" before the post, "wait"
\* with the request in flight, "line68" and "line69" before the two writes, and
\* "done" with its result. data is the answer it holds. writes lists the
\* threads in the order of their writes of tokens_response; overlap tells that
\* two requests were in flight at once, and rewritten that tokens_response
\* was given another value while tokens_verified was already true.
NoThreads ==
    [proc |-> [t \in Threads |-> [pc |-> "start", client |-> {}, data |-> {},
                                  result |-> ""]],
     writes |-> <<>>, overlap |-> FALSE, rewritten |-> FALSE]

\* thread t moves to pc (and result), the rest of threads as given
Moved(t, pc, result) ==
    [threads EXCEPT !.proc[t].pc = pc, !.proc[t].result = result]

\* lines 38-46 and the first read of line 55: DymoAPI(c) in thread t
Enter(t, c) ==
    /\ threads.proc[t].pc = "start"
    /\ threads' =
           [(IF ~VerifiesOnInit(c) THEN Moved(t, "done", "skipped")
             ELSE IF ResponseTruthy(tokens_response) THEN Moved(t, "line55", "")
             ELSE Moved(t, "line63", ""))
            EXCEPT !.proc[t].client = {c}]
    /\ UNCHANGED <<tokens_response, tokens_verified, clients, verified_by, last>>

\* the first read of line 55: c.initialize_tokens() called directly in thread t
EnterDirect(t, c) ==
    /\ threads.proc[t].pc = "start"
    /\ threads' =
           [(IF ResponseTruthy(tokens_response) THEN Moved(t, "line55", "")
             ELSE Moved(t, "line63", ""))
            EXCEPT !.proc[t].client = {c}]
    /\ UNCHANGED <<tokens_response, tokens_verified, clients, verified_by, last>>

\* the call of thread t has ended; the thread is free for its next call
Restart(t) ==
    /\ threads.proc[t].pc = "done"
    /\ threads' = [threads EXCEPT !.proc[t] = NoThreads.proc[t]]
    /\ UNCHANGED <<tokens_response, tokens_verified, clients, verified_by, last>>

\* line 55, the second read: tokens_verified
ReadVerified(t) ==
    /\ threads.proc[t].pc = "line55"
    /\ threads' = IF tokens_verified THEN Moved(t, "done", "cached")
                  ELSE Moved(t, "line63", "")
    /\ UNCHANGED <<tokens_response, tokens_verified, clients, verified_by, last>>

\* lines 56-63: with an empty token map the call returns, else the request
\* leaves
Post(t) ==
    /\ threads.proc[t].pc = "line63"
    /\ threads' =
           IF DOMAIN TokensOf(CHOOSE x \in threads.proc[t].client : TRUE) = {}
           THEN Moved(t, "done", "skipped")
           ELSE [Moved(t, "wait", "") EXCEPT
                    !.overlap = @ \/ \E u \in Threads \ {t} : threads.proc[u].pc = "wait"]
    /\ UNCHANGED <<tokens_response, tokens_verified, clients, verified_by, last>>

\* lines 63-67 and 71-72: the answer arrives and is examined
Receive(t, reply) ==
    LET c == CHOOSE x \in threads.proc[t].client : TRUE
        e == InitTokens(c, {}, FALSE, reply)
    IN  /\ threads.proc[t].pc = "wait"
        /\ threads' =
               IF e.outcome = "raise" THEN Moved(t, "done", "raised")
               ELSE IF ~e.verified THEN Moved(t, "done", "failed")
               ELSE [Moved(t, "line68", "") EXCEPT !.proc[t].data = e.response]
        /\ UNCHANGED <<tokens_response, tokens_verified, clients, verified_by, last>>

\* mutant of StoredRecord: a record is kept once the cache is verified
StoredRecordFirstWins(old, ver, data) == IF ver THEN old ELSE data

\* line 68: the assignment is unconditional
StoredRecord(old, ver, data) == data

\* line 68: DymoAPI.tokens_response = data
StoreResponse(t) ==
    /\ threads.proc[t].pc = "line68"
    /\ tokens_response' =
           StoredRecord(tokens_response, tokens_verified, threads.proc[t].data)
    /\ threads' =
           [Moved(t, "line69", "") EXCEPT
               !.writes = Append(@, t),
               !.rewritten = @ \/ (tokens_verified /\ tokens_response' # tokens_response)]
    /\ UNCHANGED <<tokens_verified, clients, verified_by, last>>

\* lines 69-70: DymoAPI.tokens_verified = True
StoreVerified(t) ==
    /\ threads.proc[t].pc = "line69"
    /\ tokens_verified' = TRUE
    /\ verified_by' =
           Append(verified_by, TokensOf(CHOOSE x \in threads.proc[t].client : TRUE))
    /\ threads' = Moved(t, "done", "verified")
    /\ UNCHANGED <<tokens_response, clients, last>>

(* ---------------- the specification ---------------- *)

\* class attributes of lines 12-13; no instance exists yet
Init ==
    /\ tokens_response = {}
    /\ tokens_verified = FALSE
    /\ clients = {}
    /\ verified_by = <<>>
    /\ last = NoCall
    /\ threads = NoThreads

\* the answers the service can give to a call of initialize_tokens by client c:
\* one placeholder when the call sends nothing
VerifyAnswers(c) ==
    IF InitTokens(c, tokens_response, tokens_verified,
                  [kind |-> "network_error", data |-> <<>>]).requests = <<>>
    THEN {[kind |-> "network_error", data |-> <<>>]}
    ELSE VerifyReplies

\* the answers to a capability call of client c in module_name, likewise: a
\* transport failure, or one of the payloads
CallAnswers(c, module_name, payloads) ==
    LET any == CHOOSE p \in payloads : TRUE
    IN  IF MissingPrivateToken(module_name, c)
        THEN {[reply |-> "ok", payload |-> any]}
        ELSE {[reply |-> "transport_error", payload |-> any]}
             \cup {[reply |-> "ok", payload |-> p] : p \in payloads}

\* the pydantic generations a private call's response model is built under: the
\* choice shows only in a returned payload that lacks a field of the model
Stricts(c, a) ==
    IF \/ MissingPrivateToken("private", c)
       \/ a.reply # "ok"
       \/ ModelFields("DataVerifierResponse") \subseteq DOMAIN a.payload
    THEN {FALSE}
    ELSE BOOLEAN

Next ==
    \/ \E c \in Configs :
           \E reply \in (IF VerifiesOnInit(c) THEN VerifyAnswers(c) ELSE {[kind |-> "network_error", data |-> <<>>]}) :
               Construct(c, reply)
    \/ \E c \in clients : Release(c)
    \/ \E c \in clients : \E reply \in VerifyAnswers(c) : InitializeTokens(c, reply)
    \/ \E c \in clients : \E a \in CallAnswers(c, "private", VerifierPayloads) :
           \E strict \in Stricts(c, a) : IsValidData(c, a.reply, a.payload, strict)
    \/ \E c \in clients : \E a \in CallAnswers(c, "private", PlainPayloads("send_email")) :
           \E strict \in Stricts(c, a) : SendEmail(c, a.reply, a.payload, strict)
    \/ \E c \in clients : \E a \in CallAnswers(c, "private", PlainPayloads("get_random")) :
           \E strict \in Stricts(c, a) : GetRandom(c, a.reply, a.payload, strict)
    \/ \E c \in clients : \E a \in CallAnswers(c, "public", PlainPayloads("get_prayer_times")) :
           GetPrayerTimes(c, a.reply, a.payload)
    \/ \E c \in clients : \E a \in CallAnswers(c, "public", PlainPayloads("satinizer")) :
           Satinizer(c, a.reply, a.payload)
    \/ \E c \in clients : \E a \in CallAnswers(c, "public", PlainPayloads("is_valid_pwd")) :
           IsValidPwd(c, a.reply, a.payload)
    \/ \E c \in clients : \E a \in CallAnswers(c, "public", PlainPayloads("new_url_encrypt")) :
           NewUrlEncrypt(c, a.reply, a.payload)

Spec == Init /\ [][Next]_vars

\* the constructions of the two threads, interleaved step by step
NextThreads ==
    \/ \E t \in Threads : \E c \in ThreadConfigs : Enter(t, c)
    \/ \E t \in Threads : ReadVerified(t)
    \/ \E t \in Threads : Post(t)
    \/ \E t \in Threads : \E reply \in VerifyReplies : Receive(t, reply)
    \/ \E t \in Threads : StoreResponse(t)
    \/ \E t \in Threads : StoreVerified(t)

SpecThreads == Init /\ [][NextThreads]_vars

\* any number of constructions and direct initialize_tokens calls by the two
\* threads, one after another or interleaved step by step
NextCalls ==
    \/ NextThreads
    \/ \E t \in Threads : \E c \in ThreadConfigs : EnterDirect(t, c)
    \/ \E t \in Threads : Restart(t)

SpecCalls == Init /\ [][NextCalls]_vars

\* configurations with the endpoint selector and with empty keys
RequestConfigs ==
    [root_api_key : {NoneVal, "", "r1"}, api_key : {NoneVal, "", "k1"},
     server_email_config : {NoneVal}, local : BOOLEAN]

\* constructions and direct initialize_tokens calls with those configurations
NextRequest ==
    \/ \E c \in RequestConfigs :
           \E reply \in (IF VerifiesOnInit(c) THEN VerifyAnswers(c) ELSE {[kind |-> "network_error", data |-> <<>>]}) :
               Construct(c, reply)
    \/ \E c \in clients : Release(c)
    \/ \E c \in clients : \E reply \in VerifyAnswers(c) : InitializeTokens(c, reply)

SpecRequest == Init /\ [][NextRequest]_vars

(* ---------------- properties ---------------- *)

\* the facade methods of the private capabilities
PrivateOps == {"is_valid_data", "send_email", "get_random"}

\* the instance the last call was made on
LastClient == CHOOSE c \in last.client : TRUE

\* the last call was a private capability method of an instance without api_key
PrivateCallWithoutKey == last.op \in PrivateOps /\ LastClient.api_key = NoneVal

\* C1: a private capability method (is_valid_data, send_email, get_random) of a
\* client whose api_key is absent sends no request and invokes no capability
\* function, whatever its root key, its email config and the state of the cache.
C1_NoRequestWithoutApiKey ==
    PrivateCallWithoutKey => last.requests = <<>> /\ last.dispatched = <<>>

\* C1 witness: get_random on a client with a root key and an email config but no
\* api_key, in a process whose cache an earlier client has verified
C1_Witness ==
    /\ PrivateCallWithoutKey
    /\ last.op = "get_random"
    /\ LastClient.root_api_key = "r1"
    /\ LastClient.server_email_config = "smtp"
    /\ tokens_verified
    /\ last.logs = <<"Invalid private token.">>

\* C2 (the claim as stated): with the api_key absent, is_valid_data, get_random,
\* and send_email with a root key or an email config, log an error and return
\* None to the caller instead of raising.
C2_ReturnsAbsentWithoutRaising ==
    (PrivateCallWithoutKey /\ ~(last.op = "send_email" /\ EmailUnconfigured(LastClient)))
        => /\ last.logs # <<>>
           /\ last.outcome = "return"
           /\ last.value = {}

\* a capability function of the private module was invoked by the last call
PrivateDispatched ==
    \E i \in 1..Len(last.dispatched) : last.dispatched[i].module = "private"

\* C3 (the claim as stated): a private capability is dispatched only with an
\* api_key that is present and non-empty.
C3_DispatchNeedsNonEmptyKey ==
    PrivateDispatched => Truthy(LastClient.api_key)

\* C4: once the cache is verified, a construction or a direct initialize_tokens
\* call returns without sending a verification request, and the call that
\* verified the cache sent exactly one: one request in total.
C4_VerifiedShortCircuits ==
    last.op \in InitOps =>
        /\ last.before.verified =>
               last.requests = <<>> /\ last.outcome = "return"
        /\ (~last.before.verified /\ tokens_verified) => Len(last.requests) = 1

\* C4 witness: a client with other credentials is constructed, and verification
\* is asked for, after the cache was verified; the cached verdict is reused
C4_Witness ==
    /\ last.op = "__init__"
    /\ last.before.verified
    /\ last.trace = <<"set_base_url", "get_base_url", "check_for_updates", "initialize_tokens">>
    /\ last.prints = <<"Using cached tokens response.">>
    /\ verified_by # <<TokensOf(LastClient)>>
    /\ last.requests = <<>>
\* C5 (the claim as stated): a credential set is sent for verification at most
\* once; a construction that repeats the credential set of a construction that
\* just sent a verification request sends none.
C5_AtMostOneRequestPerSet ==
    [][(/\ last.op = "__init__"
        /\ last.requests # <<>>
        /\ last'.op = "__init__"
        /\ TokensOf(LastClient') = TokensOf(LastClient))
          => last'.requests = <<>>]_vars

\* C5 (amended): over any sequence of constructions at most one verification
\* request succeeds in the process; a construction sends a request only while
\* the cache is unverified, so none follows the successful one, for the same
\* credential set or any other.
C5_AtMostOneSuccessfulVerification ==
    /\ Len(verified_by) <= 1
    /\ tokens_verified <=> verified_by # <<>>
    /\ (last.op = "__init__" /\ last.requests # <<>>) =>
           /\ ~last.before.verified
           /\ tokens_verified => verified_by = <<TokensOf(LastClient)>>

\* C5 witness: a client is constructed again with the credential set that was
\* verified, and no request is sent
C5_Witness ==
    /\ last.op = "__init__"
    /\ verified_by = <<TokensOf(LastClient)>>
    /\ last.before.verified
    /\ last.requests = <<>>

\* the service's answer to the last call's verification request was a
\* transport failure: a network error or a non-2xx status
TransportFailed ==
    \E r \in last.reply : r.kind \in {"network_error", "http_error"}

\* the answer does not confirm a credential the client supplied
RootDenied ==
    \E r \in last.reply :
        r.kind = "json" /\ Truthy(LastClient.root_api_key) /\ ~GetTruthy(r.data, "root")

ApiDenied ==
    \E r \in last.reply :
        r.kind = "json" /\ Truthy(LastClient.api_key) /\ ~GetTruthy(r.data, "private")

\* the cache is as it was when the last call started
CacheUntouched ==
    tokens_response = last.before.response /\ tokens_verified = last.before.verified

\* C6: when the verification request fails in transport or a supplied credential
\* is rejected, initialize_tokens logs the error and returns, the construction
\* completes, and the cache is left as it was.
C6_FailureIsSwallowed ==
    (last.op \in InitOps /\ (TransportFailed \/ RootDenied \/ ApiDenied)) =>
        /\ last.outcome = "return"
        /\ Len(last.logs) = 1
        /\ last.logs[1][1] = "Token validation error"
        /\ CacheUntouched
        /\ last.op = "__init__" => LastClient \in clients

\* C6 witness: a construction whose root key the service rejects
C6_Witness ==
    /\ last.op = "__init__"
    /\ RootDenied
    /\ ~TransportFailed
    /\ LastClient \in clients
    /\ last.logs = <<<<"Token validation error", "Invalid root token.">>>>

\* C7 (the claim as stated): a private capability is dispatched, with a
\* non-empty api_key, only when the cache is verified.
C7_DispatchOnlyWhenVerified ==
    (PrivateDispatched /\ Truthy(LastClient.api_key)) => tokens_verified

\* C8: the cache becomes verified only by an answer that confirms every
\* credential the client supplied, and then holds that answer; an answer that
\* does not confirm a supplied root or API credential ends in a logged
\* AuthenticationError and leaves the cache unpopulated.
C8_VerifiedOnlyIfAllConfirmed ==
    last.op \in InitOps =>
        /\ (~last.before.verified /\ tokens_verified) =>
               /\ ~RootDenied /\ ~ApiDenied /\ ~TransportFailed
               /\ \E r \in last.reply : r.kind = "json" /\ tokens_response = {r.data}
        /\ RootDenied =>
               /\ last.logs = <<<<"Token validation error", "Invalid root token.">>>>
               /\ CacheUntouched /\ ~tokens_verified
        /\ (ApiDenied /\ ~RootDenied) =>
               /\ last.logs = <<<<"Token validation error", "Invalid private token.">>>>
               /\ CacheUntouched /\ ~tokens_verified

\* C8 witness: a client with both credentials whose root key is confirmed and
\* whose api key is not
C8_Witness ==
    /\ last.op \in InitOps
    /\ Truthy(LastClient.root_api_key)
    /\ ApiDenied
    /\ ~RootDenied
    /\ ~tokens_verified

\* C9: once verified is true, no construction, initialize_tokens call or
\* capability call sets it back or changes the cached record.
C9_VerifiedIsTerminal ==
    [][tokens_verified =>
           tokens_verified' /\ tokens_response' = tokens_response]_vars

\* C9 witness: initialize_tokens is called on a client with other credentials
\* after the cache was verified, and the service's record is still the cached one
C9_Witness ==
    /\ last.op = "initialize_tokens"
    /\ last.before.verified
    /\ Truthy(LastClient.api_key)
    /\ verified_by # <<TokensOf(LastClient)>>
    /\ tokens_verified
    /\ tokens_response = last.before.response

\* C10: a failed verification leaves the cache unverified and sent one request
\* only (no retry inside the call); the next construction of a client with a
\* non-empty api_key sends exactly one new verification request, its own.
C10_FailedVerificationRetriedOnce ==
    /\ FailedVerification(last) =>
           ~tokens_verified /\ CacheUntouched /\ Len(last.requests) = 1
    /\ (last.after_failure /\ last.op = "__init__" /\ Truthy(LastClient.api_key)) =>
           last.requests = <<VerifyRequest(LastClient)>>

\* C10 witness: a construction right after a failed verification sends its one
\* request, which succeeds
C10_Witness ==
    /\ last.after_failure
    /\ last.op = "__init__"
    /\ Len(last.requests) = 1
    /\ tokens_verified
\* C11: __init__ resolves the base URL, then checks for updates, then verifies
\* the credentials; initialize_tokens is called if and only if the api_key is
\* non-empty, so a client with no credentials or a root key only sends no
\* verification request.
C11_ConstructionOrder ==
    last.op = "__init__" =>
        /\ Len(last.trace) >= 3
        /\ SubSeq(last.trace, 1, 3) = <<"set_base_url", "get_base_url", "check_for_updates">>
        /\ Truthy(LastClient.api_key) =>
               last.trace = <<"set_base_url", "get_base_url", "check_for_updates",
                              "initialize_tokens">>
        /\ ~Truthy(LastClient.api_key) =>
               Len(last.trace) = 3 /\ last.requests = <<>> /\ CacheUntouched

\* C11 witness: a client with a root key only is constructed while the cache is
\* unverified, and nothing is sent
C11_Witness ==
    /\ last.op = "__init__"
    /\ LastClient.root_api_key = "r1"
    /\ LastClient.api_key = NoneVal
    /\ ~tokens_verified
    /\ last.requests = <<>>

IpOf(v) ==
    IF v = {} THEN {}
    ELSE LET p == CHOOSE x \in v : TRUE
         IN  IF "ip" \in DOMAIN p THEN p["ip"] ELSE {}

\* the last call was is_valid_data and its capability returned an ip object
\* with both "as" and "class"
HadAsAndClass ==
    /\ last.op = "is_valid_data"
    /\ IpOf(last.raw) # {}
    /\ {"as", "class"} \subseteq DOMAIN (CHOOSE o \in IpOf(last.raw) : TRUE)

\* C13 (the claim as stated): whenever the raw payload's ip object has "as" and
\* "class", whatever their values, the normalized payload has "_as" and
\* "_class" with those values and neither "as" nor "class".
C13_RenamesAsAndClass ==
    HadAsAndClass =>
        /\ IpOf(last.value) # {}
        /\ LET raw == CHOOSE o \in IpOf(last.raw) : TRUE
               ip == CHOOSE o \in IpOf(last.value) : TRUE
           IN  /\ {"_as", "_class"} \subseteq DOMAIN ip
               /\ ip["_as"] = raw["as"]
               /\ ip["_class"] = raw["class"]
               /\ "as" \notin DOMAIN ip
               /\ "class" \notin DOMAIN ip

\* the facade methods
FacadeOps ==
    {"is_valid_data", "send_email", "get_random", "get_prayer_times", "satinizer",
     "is_valid_pwd", "new_url_encrypt"}

\* C14 (the claim as stated): a facade method that got a payload builds the
\* response model its capability declares.
C14_BuildsDeclaredShape ==
    (last.op \in FacadeOps /\ last.model # "") => last.model = Declared(last.op)

\* the public capability methods
PublicOps == {"get_prayer_times", "satinizer", "is_valid_pwd", "new_url_encrypt"}

\* C15: a public capability method, whatever the client's credentials, invokes
\* its capability function exactly once, with the caller's argument as it was
\* given and no credential, logs nothing and leaves the cache alone; when it
\* returns, every field of the result is the payload's entry of that name.
C15_PublicPassThrough ==
    last.op \in PublicOps =>
        /\ last.dispatched =
               <<[module |-> "public", name |-> last.op, token |-> {}, args |-> "data"]>>
        /\ last.logs = <<>>
        /\ CacheUntouched
        /\ last.outcome = "return" =>
               /\ last.raw # {}
               /\ last.result # {}
               /\ LET payload == CHOOSE p \in last.raw : TRUE
                      result == CHOOSE o \in last.result : TRUE
                  IN  /\ DOMAIN result = ModelFields(Declared(last.op))
                      /\ \A f \in DOMAIN result : result[f] = payload[f]

\* C15 witness: is_valid_pwd on a client without any credential returned the
\* verdict of the payload
C15_Witness ==
    /\ last.op = "is_valid_pwd"
    /\ LastClient = [root_api_key |-> NoneVal, api_key |-> NoneVal,
                     server_email_config |-> NoneVal]
    /\ last.outcome = "return"
    /\ \E o \in last.result : o["valid"] = {"b"}

\* the capability function invoked by the last call raised
CapabilityRaised == last.dispatched # <<>> /\ last.raw = {}

\* C16: when the capability function a facade method invoked fails in transport,
\* the method raises that error: it returns nothing, builds no response model
\* and logs nothing.
C16_TransportFailureSurfaces ==
    (last.op \in FacadeOps /\ CapabilityRaised) =>
        /\ last.outcome = "raise"
        /\ last.exc = "APIError"
        /\ last.result = {}
        /\ last.model = ""
        /\ last.logs = <<>>

\* C16 witness: new_url_encrypt was dispatched and its request failed
C16_Witness ==
    /\ last.op = "new_url_encrypt"
    /\ Len(last.requests) = 1
    /\ CapabilityRaised
    /\ last.outcome = "raise"

\* C17: the renaming of is_valid_data is idempotent and keeps no state: applied
\* to a payload it has already normalized it returns that payload unchanged,
\* and the call leaves the cache as it was.
C17_NormalizeIdempotent ==
    (last.op = "is_valid_data" /\ last.value # {}) =>
        /\ LET again == Normalize(CHOOSE v \in last.value : TRUE)
           IN  again.outcome = "return" /\ again.value = last.value
        /\ CacheUntouched

\* C17 witness: is_valid_data returned a payload in which "as" and "class" were
\* renamed
C17_Witness ==
    /\ last.op = "is_valid_data"
    /\ last.value # last.raw
    /\ \E o \in IpOf(last.value) : "_as" \in DOMAIN o /\ o["_as"] = "x"

\* the last call was made on a client whose credentials are not those the
\* cached verdict was given for
OtherCredentials ==
    /\ verified_by # <<>>
    /\ TokensOf(LastClient) # verified_by[1]

\* the last call was a private capability method that got past its guards
PrivateCallWithKey ==
    /\ last.op \in PrivateOps
    /\ LastClient.api_key # NoneVal
    /\ ~(last.op = "send_email" /\ EmailUnconfigured(LastClient))

\* C18: the verdict is shared by all clients. Once credentials have been verified,
\* constructing a client with an api_key and other credentials sends no request
\* and leaves the cache as it was, and a private capability method of such a
\* client invokes its capability with the client's own api_key.
C18_SharedVerdict ==
    /\ (/\ last.op = "__init__"
        /\ last.before.verified
        /\ OtherCredentials
        /\ Truthy(LastClient.api_key)) =>
            /\ last.requests = <<>>
            /\ last.prints = <<"Using cached tokens response.">>
            /\ last.outcome = "return"
            /\ CacheUntouched
    /\ (PrivateCallWithKey /\ tokens_verified /\ OtherCredentials) =>
            /\ Len(last.dispatched) = 1
            /\ last.dispatched[1].module = "private"
            /\ last.dispatched[1].token = {LastClient.api_key}
            /\ CacheUntouched

\* C18 witness: "k1" was verified, and get_random of a client with "k2" was
\* dispatched with "k2"
C18_Witness ==
    /\ last.op = "get_random"
    /\ LastClient.api_key = "k2"
    /\ tokens_verified
    /\ verified_by = <<[private |-> Bearer("k1")]>>
    /\ Len(last.dispatched) = 1
    /\ last.dispatched[1].token = {"k2"}

\* both threads have finished, each with a verification that succeeded
BothVerified == \A t \in Threads : threads.proc[t].result = "verified"

\* C19: concurrent constructions are not serialized. Whatever the interleaving,
\* the cached record is the one written by the last thread to execute line 68,
\* and when both threads have finished with a successful verification the cache
\* is verified, each thread has sent its own request and written its own record.
C19_LastWriterWins ==
    /\ threads.writes # <<>> =>
           tokens_response = threads.proc[threads.writes[Len(threads.writes)]].data
    /\ BothVerified =>
           /\ tokens_verified
           /\ Len(threads.writes) = 2
           /\ threads.writes[1] # threads.writes[2]
           /\ Len(verified_by) = 2

\* C19 witness: both threads passed the check of line 55 and had their requests
\* in flight together, both succeeded, and the record was replaced by another
\* one after tokens_verified had become true
C19_Witness ==
    /\ BothVerified
    /\ threads.overlap
    /\ threads.rewritten
    /\ tokens_verified

\* C20: a call of initialize_tokens sends at most one request. A request is a
\* POST to the client's base URL followed by /v1/dvr/tokens whose token map has
\* "root" exactly when the root key is non-empty and "private" exactly when the
\* api key is non-empty, each "Bearer " followed by the key; a client with
\* neither sends nothing and leaves the cache as it was.
C20_VerificationRequest ==
    last.op \in InitOps =>
        /\ Len(last.requests) <= 1
        /\ \A i \in 1..Len(last.requests) :
               LET req == last.requests[i]
                   tokens == req.json.tokens
               IN  /\ req.method = "POST"
                   /\ req.base = BaseUrl(Local(LastClient))
                   /\ req.url = "/v1/dvr/tokens"
                   /\ DOMAIN req.json = {"tokens"}
                   /\ "root" \in DOMAIN tokens <=> Truthy(LastClient.root_api_key)
                   /\ "private" \in DOMAIN tokens <=> Truthy(LastClient.api_key)
                   /\ DOMAIN tokens \subseteq {"root", "private"}
                   /\ "root" \in DOMAIN tokens =>
                          tokens["root"] = <<"Bearer ", LastClient.root_api_key>>
                   /\ "private" \in DOMAIN tokens =>
                          tokens["private"] = <<"Bearer ", LastClient.api_key>>
        /\ (/\ ~CacheHit(last.before.response, last.before.verified)
            /\ last.op = "__init__" => Truthy(LastClient.api_key)
            /\ Truthy(LastClient.root_api_key) \/ Truthy(LastClient.api_key)) =>
               Len(last.requests) = 1
        /\ (~Truthy(LastClient.root_api_key) /\ ~Truthy(LastClient.api_key)) =>
               last.requests = <<>> /\ last.outcome = "return" /\ CacheUntouched

\* C20 witness: initialize_tokens called directly on a local-mode client with a
\* root key and an empty api key sent the request with the key "root" alone
C20_Witness ==
    /\ last.op = "initialize_tokens"
    /\ LastClient.api_key = ""
    /\ LastClient.root_api_key = "r1"
    /\ LastClient.local
    /\ Len(last.requests) = 1
    /\ last.requests[1].base = "local"
    /\ DOMAIN last.requests[1].json.tokens = {"root"}

\* the last call was is_valid_data and the payload its capability returned has
\* no "ip" entry, a null one, or an ip object with only one of "as" and "class"
HadPartialIp ==
    /\ last.op = "is_valid_data"
    /\ last.raw # {}
    /\ LET payload == CHOOSE p \in last.raw : TRUE
       IN  \/ "ip" \notin DOMAIN payload
           \/ payload["ip"] = {}
           \/ \E o \in payload["ip"] :
                  ("as" \in DOMAIN o) # ("class" \in DOMAIN o)

\* C21 (the claim as stated): for a payload whose "ip" entry is missing, null, or
\* an object with "as" but no "class" or "class" but no "as", the renaming of
\* is_valid_data completes without an error and hands a payload to the response
\* model.
C21_NormalizeNeverFails ==
    HadPartialIp =>
        /\ last.exc \notin {"AttributeError", "KeyError"}
        /\ last.value # {}

\* C22: in every state, whatever the calls before it and however the steps of
\* concurrent calls interleave, a true tokens_verified comes with a non-empty
\* record in tokens_response, so the test of line 55 is true exactly when
\* tokens_verified is.
C22_VerifiedHasRecord ==
    /\ tokens_verified => ResponseTruthy(tokens_response)
    /\ CacheHit(tokens_response, tokens_verified) <=> tokens_verified

\* C22 witness: the cache is verified, a later call has taken the short cut of
\* line 55, and a thread that had passed the check before is about to write
\* its own record
C22_Witness ==
    /\ tokens_verified
    /\ \E t \in Threads : threads.proc[t].result = "cached"
    /\ \E t \in Threads : threads.proc[t].pc = "line68"

====
